---- MODULE Spec2Model ----
(***************************************************************************)
(* Model of ophelia.voicerooms.message_buffer.MessageBuffer: a log buffer  *)
(* shared by concurrent asyncio tasks.  A task runs without interruption   *)
(* between two suspension points, so every action below is one such run:   *)
(* from the call (or the resumption) of a task up to the next place where  *)
(* it suspends (waiting for the asyncio.Lock, or awaiting send_message) or *)
(* leaves the MessageBuffer method.                                        *)
(***************************************************************************)
EXTENDS Integers, Sequences, FiniteSets, TLC

VARIABLES
    message_buffer, \* self.message_buffer: dict in insertion order,
                    \* a sequence of [channel, content] items
    current_size,   \* self.current_size
    lock,           \* self.lock: [_locked, _waiters] of asyncio.Lock
    settings,       \* ophelia.settings: the configuration BUFFER_SIZE is read from
    pc,             \* per task: "idle"; "record" (a record call waiting for
                    \* the lock); "dump" (dump() waiting for the lock);
                    \* "send" (dump() holding the lock, awaiting send_message)
    frame,          \* per task: the arguments and locals of its current call
    logged,         \* history: every recorded event, [channel, event, lines],
                    \* in append order
    sent,           \* history: per channel, the lines send_message delivered, in order
    stats,          \* history: counters of dump() calls, completions, aborts,
                    \* failed sends and failed formattings
    budget          \* what the environment may still do (bounds the model)

vars == <<message_buffer, current_size, lock, settings, pc, frame,
          logged, sent, stats, budget>>

----------------------------------------------------------------------------
(* Bounds of the model *)

MaxCalls == 3
MaxFails == 1
RaceCalls == 6
FormatCalls == 3
LiveCalls == 4

TaskIds == {1, 2, 3}
RaceTaskIds == {1, 2, 3, 4}
FormatTaskIds == {1, 2}

(* Program constants *)

LOG_WRAP == 1500
BUFFER_SIZE == 2
GROUP_MAX == 2000

Channels == {"A", "B"}

----------------------------------------------------------------------------
(* Strings are modelled by their length and the number of their characters *)
(* that the renderer would read as formatting directives.                  *)

Str(n, k) == [len |-> n, fmt |-> k]

escape_formatting(s) == [len |-> s.len + s.fmt, fmt |-> 0]

quotify(s) == [len |-> s.len + 2, fmt |-> s.fmt]

RECURSIVE string_wrap(_, _)
string_wrap(s, w) ==
    IF s.len = 0 THEN <<>>
    ELSE IF s.len <= w THEN <<s>>
    ELSE <<[len |-> w, fmt |-> 0]>> \o string_wrap([len |-> s.len - w, fmt |-> 0], w)

(* An event handed to a record call: a chat message (log_message) or a raw *)
(* system text (log_system_msg).                                           *)

ChatEvent(att, content) ==
    [type |-> "chat", author |-> Str(6, 1), attachments |-> att,
     content |-> content, clean_content |-> content,
     text_channel |-> "none", text |-> Str(0, 0)]

SystemEvent(text_channel, text) ==
    [type |-> "system", author |-> Str(0, 0), attachments |-> <<>>,
     content |-> Str(0, 0), clean_content |-> Str(0, 0),
     text_channel |-> text_channel, text |-> text]

NoEvent == [type |-> "none", author |-> Str(0, 0), attachments |-> <<>>,
            content |-> Str(0, 0), clean_content |-> Str(0, 0),
            text_channel |-> "none", text |-> Str(0, 0)]

(* A value that is no string (None), and a message carrying one: its      *)
(* formatting raises.                                                     *)

NoneValue == [len |-> -1, fmt |-> 0]

Escapable(s) == s.len >= 0

Malformed == [ChatEvent(<<>>, Str(5, 0)) EXCEPT !.author = NoneValue]

Messages ==
    { ChatEvent(<<>>, Str(0, 0)),
      ChatEvent(<<Str(8, 1)>>, Str(2997, 0)) }

Texts == { Str(11, 2) }

(* Messages of every shape format_message distinguishes: no, one or two   *)
(* attachments; no content, content below, at and above one wrapped line, *)
(* and content whose clean_content (mentions resolved) differs from it.   *)

Contents ==
    { <<Str(0, 0), Str(0, 0)>>, <<Str(5, 1), Str(5, 1)>>,
      <<Str(LOG_WRAP - 2, 0), Str(LOG_WRAP - 2, 0)>>,
      <<Str(LOG_WRAP - 1, 0), Str(LOG_WRAP - 1, 0)>>,
      <<Str(4, 0), Str(9, 1)>> }

FormatMessages ==
    { [ChatEvent(att, c[1]) EXCEPT !.clean_content = c[2]] :
          att \in {<<>>, <<Str(8, 1)>>, <<Str(8, 1), Str(3, 0)>>},
          c \in Contents }

(* A line of the log: ev is the number of the event it belongs to, part    *)
(* and no say which line of the event it is.                               *)

Line(ev, part, no, len) == [ev |-> ev, part |-> part, no |-> no, len |-> len]

RECURSIVE SumLen(_)
SumLen(ss) == IF ss = <<>> THEN 0 ELSE Head(ss).len + SumLen(Tail(ss))

format_message_always_tail(message, ev) ==
    LET header == <<Line(ev, "header", 1,
                         60 + escape_formatting(message.author).len)>>
        names == [k \in DOMAIN message.attachments |->
                      escape_formatting(message.attachments[k])]
        attachments ==
            IF message.attachments # <<>>
            THEN <<Line(ev, "attachments", 1,
                        SumLen(names) + 2 * (Len(names) - 1))>>
            ELSE <<>>
        chunks == string_wrap(quotify(escape_formatting(message.clean_content)),
                              LOG_WRAP)
        tail == [k \in DOMAIN chunks |-> Line(ev, "tail", k, chunks[k].len)]
    IN header \o attachments \o tail

format_message(message, ev) ==
    LET header == <<Line(ev, "header", 1,
                         60 + escape_formatting(message.author).len)>>
        names == [k \in DOMAIN message.attachments |->
                      escape_formatting(message.attachments[k])]
        attachments ==
            IF message.attachments # <<>>
            THEN <<Line(ev, "attachments", 1,
                        SumLen(names) + 2 * (Len(names) - 1))>>
            ELSE <<>>
        chunks == string_wrap(quotify(escape_formatting(message.clean_content)),
                              LOG_WRAP)
        tail ==
            IF message.content.len # 0
            THEN [k \in DOMAIN chunks |-> Line(ev, "tail", k, chunks[k].len)]
            ELSE <<>>
    IN header \o attachments \o tail

FormatRaises(event) ==
    /\ event.type = "chat"
    /\ \/ ~Escapable(event.author)
       \/ \E k \in DOMAIN event.attachments : ~Escapable(event.attachments[k])
       \/ event.content.len # 0 /\ ~Escapable(event.clean_content)

raw_header(event, ev) == <<Line(ev, "raw", 1, 30 + event.text.len)>>

EventLines(event, ev) ==
    IF event.type = "chat" THEN format_message(event, ev) ELSE raw_header(event, ev)

(* group_strings: greedy packing of the lines, in order, into batches      *)
(* whose text (lines joined by one separator character) fits GROUP_MAX.    *)

RECURSIVE Pack(_, _, _)
Pack(rest, batch, size) ==
    IF rest = <<>> THEN (IF batch = <<>> THEN <<>> ELSE <<batch>>)
    ELSE LET l == Head(rest) IN
         IF batch = <<>> THEN Pack(Tail(rest), <<l>>, l.len)
         ELSE IF size + 1 + l.len <= GROUP_MAX
              THEN Pack(Tail(rest), Append(batch, l), size + 1 + l.len)
              ELSE <<batch>> \o Pack(rest, <<>>, 0)

group_strings(content_list) == Pack(content_list, <<>>, 0)

----------------------------------------------------------------------------
(* State after construction *)

NoFrame == [op |-> "none", channel |-> "none", event |-> NoEvent,
            crossed |-> FALSE, i |-> 0, j |-> 0, compacted |-> <<>>,
            delivered |-> {}]

InitBuffer ==
    /\ message_buffer = <<>>
    /\ current_size = 0
    /\ lock = [_locked |-> FALSE, _waiters |-> <<>>]
    /\ logged = <<>>
    /\ stats = [dump_calls |-> 0, dump_done |-> 0, dump_raised |-> 0,
                explicit |-> 0, send_failed |-> 0, format_raised |-> 0]

InitTasks(ids) ==
    /\ pc = [t \in ids |-> "idle"]
    /\ frame = [t \in ids |-> NoFrame]

Configured(size) == settings = [voiceroom_buffer_size |-> size]

Init ==
    /\ InitBuffer
    /\ Configured(BUFFER_SIZE)
    /\ sent = [c \in Channels |-> <<>>]
    /\ InitTasks(TaskIds)
    /\ budget = [calls |-> MaxCalls, fails |-> MaxFails]

Tasks == DOMAIN pc

----------------------------------------------------------------------------
(* asyncio.Lock.  acquire() returns at once when the lock is not held and  *)
(* nobody waits for it; otherwise the caller is queued and suspended.      *)
(* release() wakes the first waiter, which takes the lock when it resumes: *)
(* a lock that is not held and has waiters is promised to the first one.   *)

LockFree(lk) == ~lk._locked /\ lk._waiters = <<>>

Taken(lk) == [lk EXCEPT !._locked = TRUE]

Released(lk) == [lk EXCEPT !._locked = FALSE]

Queued(lk, t) == [lk EXCEPT !._waiters = Append(@, t)]

(* The values a task has computed so far within one uninterrupted run.     *)

Cur == [buf |-> message_buffer, size |-> current_size, lk |-> lock,
        logged |-> logged, stats |-> stats]

Commit(s, t, newpc, newframe) ==
    /\ message_buffer' = s.buf
    /\ current_size' = s.size
    /\ lock' = s.lk
    /\ settings' = settings
    /\ logged' = s.logged
    /\ stats' = s.stats
    /\ pc' = [pc EXCEPT ![t] = newpc]
    /\ frame' = [frame EXCEPT ![t] = newframe]

(* self.message_buffer.setdefault(channel, []).extend(lines) *)

Position(buf, channel) ==
    IF \E k \in DOMAIN buf : buf[k].channel = channel
    THEN CHOOSE k \in DOMAIN buf : buf[k].channel = channel
    ELSE 0

Extended(buf, channel, lines) ==
    LET k == Position(buf, channel) IN
    IF k = 0 THEN Append(buf, [channel |-> channel, content |-> lines])
    ELSE [buf EXCEPT ![k].content = @ \o lines]

(* setdefault(channel, []) alone: it is evaluated before the argument of   *)
(* extend / append, so it has run when the formatting raises.              *)

SetDefault(buf, channel) ==
    IF Position(buf, channel) = 0
    THEN Append(buf, [channel |-> channel, content |-> <<>>])
    ELSE buf

(* The first item from index i on for which group_strings yields a batch, *)
(* 0 when there is none: the for loops of dump() pass over the others.     *)

RECURSIVE NextItem(_, _)
NextItem(buf, i) ==
    IF i > Len(buf) THEN 0
    ELSE IF group_strings(buf[i].content) # <<>> THEN i
    ELSE NextItem(buf, i + 1)

(* The body of the critical section of a record call. *)

AppendedCountsLines(s, channel, lines) ==
    [s EXCEPT !.buf = Extended(@, channel, lines), !.size = @ + Len(lines)]

Appended(s, channel, lines) ==
    [s EXCEPT !.buf = Extended(@, channel, lines), !.size = @ + 1]

(* The end of dump(): current_size = 0 and message_buffer.clear(). *)

ClearedKeepsCount(s) == [s EXCEPT !.buf = <<>>]

Cleared(s) == [s EXCEPT !.buf = <<>>, !.size = 0]

(* dump() from the moment it holds the lock, up to its first send_message  *)
(* or, with nothing buffered, to its end.                                  *)

DumpBody(s, t, f) ==
    LET k == NextItem(s.buf, 1) IN
    IF k = 0
    THEN LET s1 == Cleared(s) IN
         Commit([s1 EXCEPT !.lk = Released(@), !.stats.dump_done = @ + 1],
                t, "idle", NoFrame)
    ELSE Commit(s, t, "send",
                [f EXCEPT !.i = k, !.j = 1,
                          !.compacted = group_strings(s.buf[k].content),
                          !.delivered = {}])

(* await self.dump(): the call, and its async with self.lock. *)

CallDumpNotAwaited(s, t, f) == Commit(s, t, "idle", NoFrame)

CallDump(s, t, f) ==
    LET s1 == [s EXCEPT !.stats.dump_calls = @ + 1] IN
    IF LockFree(s1.lk)
    THEN DumpBody([s1 EXCEPT !.lk = Taken(@)], t, f)
    ELSE Commit([s1 EXCEPT !.lk = Queued(@, t)], t, "dump", f)

(* The test after the critical section of a record call. *)

FullStrict(size) == size > settings.voiceroom_buffer_size

Full(size) == size >= settings.voiceroom_buffer_size

(* A record call from the moment it holds the lock: format, append, count, *)
(* release, then the threshold test and the flush it may start.            *)

RecordRaises(s, t, f) ==
    Commit([s EXCEPT !.buf = SetDefault(@, f.channel), !.lk = Released(@),
                     !.stats.format_raised = @ + 1],
           t, "idle", NoFrame)

RecordHoldingLock(s, t, f) ==
    IF FormatRaises(f.event) THEN RecordRaises(s, t, f) ELSE
    LET ev == Len(s.logged) + 1
        lines == EventLines(f.event, ev)
        s1 == Appended(s, f.channel, lines)
        s2 == [s1 EXCEPT !.logged = Append(@, [channel |-> f.channel,
                                               event |-> f.event,
                                               lines |-> lines])]
    IN IF Full(s2.size)
       THEN CallDump(s2, t, [f EXCEPT !.crossed = TRUE])
       ELSE Commit([s2 EXCEPT !.lk = Released(@)], t, "idle", NoFrame)

Record(s, t, f) ==
    IF FormatRaises(f.event) THEN RecordRaises(s, t, f) ELSE
    LET ev == Len(s.logged) + 1
        lines == EventLines(f.event, ev)
        s1 == Appended(s, f.channel, lines)
        s2 == [s1 EXCEPT !.lk = Released(@),
                         !.logged = Append(@, [channel |-> f.channel,
                                               event |-> f.event,
                                               lines |-> lines])]
    IN IF Full(s2.size)
       THEN CallDump(s2, t, [f EXCEPT !.crossed = TRUE])
       ELSE Commit(s2, t, "idle", NoFrame)

CallRecordWithoutLock(t, f) == Record(Cur, t, f)

CallRecord(t, f) ==
    IF LockFree(lock)
    THEN Record([Cur EXCEPT !.lk = Taken(@)], t, f)
    ELSE Commit([Cur EXCEPT !.lk = Queued(@, t)], t, "record", f)

----------------------------------------------------------------------------
(* The operations *)

log_message(t, channel, message) ==
    /\ pc[t] = "idle"
    /\ budget.calls > 0
    /\ budget' = [budget EXCEPT !.calls = @ - 1]
    /\ sent' = sent
    /\ CallRecord(t, [NoFrame EXCEPT !.op = "log_message",
                                     !.channel = channel, !.event = message])

log_system_msg_to_text_channel(t, log_channel, text_channel, text) ==
    /\ pc[t] = "idle"
    /\ budget.calls > 0
    /\ budget' = [budget EXCEPT !.calls = @ - 1]
    /\ sent' = sent
    /\ CallRecord(t, [NoFrame EXCEPT !.op = "log_system_msg",
                                     !.channel = text_channel,
                                     !.event = SystemEvent(text_channel, text)])

log_system_msg(t, log_channel, text_channel, text) ==
    /\ pc[t] = "idle"
    /\ budget.calls > 0
    /\ budget' = [budget EXCEPT !.calls = @ - 1]
    /\ sent' = sent
    /\ CallRecord(t, [NoFrame EXCEPT !.op = "log_system_msg",
                                     !.channel = log_channel,
                                     !.event = SystemEvent(text_channel, text)])

dump(t) ==
    /\ pc[t] = "idle"
    /\ budget.calls > 0
    /\ budget' = [budget EXCEPT !.calls = @ - 1]
    /\ sent' = sent
    /\ CallDump([Cur EXCEPT !.stats.explicit = @ + 1], t,
                [NoFrame EXCEPT !.op = "dump"])

(* The first waiter, woken by release(), resumes inside acquire(). *)

Woken(t) ==
    /\ ~lock._locked
    /\ lock._waiters # <<>>
    /\ Head(lock._waiters) = t

Resumed == [Cur EXCEPT !.lk = [_locked |-> TRUE, _waiters |-> Tail(lock._waiters)]]

acquire_record(t) ==
    /\ pc[t] = "record"
    /\ Woken(t)
    /\ UNCHANGED <<sent, budget>>
    /\ Record(Resumed, t, frame[t])

acquire_dump(t) ==
    /\ pc[t] = "dump"
    /\ Woken(t)
    /\ UNCHANGED <<sent, budget>>
    /\ DumpBody(Resumed, t, frame[t])

(* What awaiting send_message can end in. *)

send_message == {"returns", "raises"}

(* send_message returns: the batch is delivered; dump() goes on to the     *)
(* next batch, the next channel, or its end.                               *)

send_returns(t) ==
    /\ pc[t] = "send"
    /\ "returns" \in send_message
    /\ UNCHANGED budget
    /\ LET f == frame[t]
           item == message_buffer[f.i]
           k == NextItem(message_buffer, f.i + 1)
       IN /\ sent' = [sent EXCEPT ![item.channel] = @ \o f.compacted[f.j]]
          /\ IF f.j < Len(f.compacted)
             THEN Commit(Cur, t, "send", [f EXCEPT !.j = @ + 1])
             ELSE IF k # 0
             THEN Commit(Cur, t, "send",
                         [f EXCEPT !.i = k, !.j = 1,
                                   !.compacted =
                                       group_strings(message_buffer[k].content),
                                   !.delivered = @ \cup {item.channel}])
             ELSE LET s1 == Cleared(Cur) IN
                  Commit([s1 EXCEPT !.lk = Released(@), !.stats.dump_done = @ + 1],
                         t, "idle", NoFrame)

(* send_message raises: the exception leaves dump() through its           *)
(* async with, which releases the lock, and then the caller of dump().    *)

send_failure_swallowed(t) ==
    /\ pc[t] = "send"
    /\ budget.fails > 0
    /\ budget' = [budget EXCEPT !.fails = @ - 1]
    /\ sent' = sent
    /\ LET s1 == Cleared(Cur) IN
       Commit([s1 EXCEPT !.lk = Released(@), !.stats.dump_done = @ + 1,
                         !.stats.send_failed = @ + 1],
              t, "idle", NoFrame)

send_raises_keeps_lock(t) ==
    /\ pc[t] = "send"
    /\ budget.fails > 0
    /\ budget' = [budget EXCEPT !.fails = @ - 1]
    /\ sent' = sent
    /\ Commit([Cur EXCEPT !.stats.dump_raised = @ + 1,
                           !.stats.send_failed = @ + 1],
              t, "idle", NoFrame)

send_raises(t) ==
    /\ pc[t] = "send"
    /\ "raises" \in send_message
    /\ budget.fails > 0
    /\ budget' = [budget EXCEPT !.fails = @ - 1]
    /\ sent' = sent
    /\ Commit([Cur EXCEPT !.lk = Released(@), !.stats.dump_raised = @ + 1,
                           !.stats.send_failed = @ + 1],
              t, "idle", NoFrame)

Next ==
    \/ \E t \in Tasks, c \in Channels, m \in Messages : log_message(t, c, m)
    \/ \E t \in Tasks, c \in Channels, x \in Texts :
           log_system_msg(t, c, "voice", x)
    \/ \E t \in Tasks : dump(t)
    \/ \E t \in Tasks : acquire_record(t)
    \/ \E t \in Tasks : acquire_dump(t)
    \/ \E t \in Tasks : send_returns(t)
    \/ \E t \in Tasks : send_raises(t)

Spec == Init /\ [][Next]_vars

(* Record and flush calls under the scheduling the event loop gives: a   *)
(* woken waiter is resumed, and an awaited send_message returns.         *)

InitLive ==
    /\ InitBuffer
    /\ Configured(BUFFER_SIZE)
    /\ sent = [c \in Channels |-> <<>>]
    /\ InitTasks(TaskIds)
    /\ budget = [calls |-> LiveCalls, fails |-> 0]

NextLive ==
    \/ \E t \in Tasks : log_message(t, "A", ChatEvent(<<>>, Str(5, 1)))
    \/ \E t \in Tasks, x \in Texts : log_system_msg(t, "B", "voice", x)
    \/ \E t \in Tasks : dump(t)
    \/ \E t \in Tasks : acquire_record(t)
    \/ \E t \in Tasks : acquire_dump(t)
    \/ \E t \in Tasks : send_returns(t)

Fairness ==
    \A t \in TaskIds :
        /\ WF_vars(acquire_record(t))
        /\ WF_vars(acquire_dump(t))
        /\ WF_vars(send_returns(t))

SpecLive == InitLive /\ [][NextLive]_vars /\ Fairness

(* Record calls only, from more tasks, with a transport that never fails. *)

InitRace ==
    /\ InitBuffer
    /\ Configured(BUFFER_SIZE)
    /\ sent = [c \in Channels |-> <<>>]
    /\ InitTasks(RaceTaskIds)
    /\ budget = [calls |-> RaceCalls, fails |-> 0]

NextRace ==
    \/ \E t \in Tasks : log_message(t, "A", ChatEvent(<<>>, Str(0, 0)))
    \/ \E t \in Tasks, x \in Texts : log_system_msg(t, "A", "voice", x)
    \/ \E t \in Tasks : acquire_record(t)
    \/ \E t \in Tasks : acquire_dump(t)
    \/ \E t \in Tasks : send_returns(t)

SpecRace == InitRace /\ [][NextRace]_vars

(* System messages about a text channel that may itself have an entry in  *)
(* the buffer, among chat messages and explicit flushes.                  *)

NextSystem ==
    \/ \E t \in Tasks, L \in Channels, T \in Channels, x \in Texts :
           log_system_msg(t, L, T, x)
    \/ \E t \in Tasks, c \in Channels :
           log_message(t, c, ChatEvent(<<>>, Str(5, 1)))
    \/ \E t \in Tasks : dump(t)
    \/ \E t \in Tasks : acquire_record(t)
    \/ \E t \in Tasks : acquire_dump(t)
    \/ \E t \in Tasks : send_returns(t)

SpecSystem == Init /\ [][NextSystem]_vars

(* Record calls over every shape of message, to one channel. *)

InitFormat ==
    /\ InitBuffer
    /\ Configured(BUFFER_SIZE)
    /\ sent = [c \in Channels |-> <<>>]
    /\ InitTasks(FormatTaskIds)
    /\ budget = [calls |-> FormatCalls, fails |-> 0]

NextFormat ==
    \/ \E t \in Tasks, m \in FormatMessages : log_message(t, "A", m)
    \/ \E t \in Tasks : acquire_record(t)
    \/ \E t \in Tasks : send_returns(t)

SpecFormat == InitFormat /\ [][NextFormat]_vars

(* A buffer constructed under any configured threshold: __init__ reads    *)
(* none of the settings.                                                  *)

Thresholds == {-1, 0, 1, 2}

InitConfig ==
    /\ InitBuffer
    /\ \E n \in Thresholds : Configured(n)
    /\ sent = [c \in Channels |-> <<>>]
    /\ InitTasks(TaskIds)
    /\ budget = [calls |-> MaxCalls, fails |-> MaxFails]

SpecConfig == InitConfig /\ [][Next]_vars

(* Record calls of which some carry a message whose formatting raises. *)

NextMalformed ==
    \/ \E t \in Tasks, c \in Channels,
          m \in {ChatEvent(<<Str(8, 1)>>, Str(0, 0)), Malformed} :
           log_message(t, c, m)
    \/ \E t \in Tasks : dump(t)
    \/ \E t \in Tasks : acquire_record(t)
    \/ \E t \in Tasks : acquire_dump(t)
    \/ \E t \in Tasks : send_returns(t)

SpecMalformed == Init /\ [][NextMalformed]_vars

(* BUFFER_SIZE record calls, one event each, to pairwise distinct          *)
(* destinations.  No task ever waits for the lock here: the only run that *)
(* holds it across a suspension is the flush, which starts at the last    *)
(* append.                                                                *)

ScenarioChannels == {"A", "B", "C"}

InitScenario ==
    /\ InitBuffer
    /\ Configured(BUFFER_SIZE)
    /\ sent = [c \in ScenarioChannels |-> <<>>]
    /\ InitTasks(TaskIds)
    /\ budget = [calls |-> BUFFER_SIZE, fails |-> MaxFails]

Fresh(t, c) ==
    /\ frame[t].op = "none"
    /\ \A k \in DOMAIN logged : logged[k].channel # c
    /\ \A u \in Tasks : frame[u].channel # c

NextScenario ==
    \/ \E t \in Tasks, c \in ScenarioChannels, m \in Messages :
           Fresh(t, c) /\ log_message(t, c, m)
    \/ \E t \in Tasks, c \in ScenarioChannels, x \in Texts :
           Fresh(t, c) /\ log_system_msg(t, c, "voice", x)
    \/ \E t \in Tasks : send_returns(t)
    \/ \E t \in Tasks : send_raises(t)

SpecScenario == InitScenario /\ [][NextScenario]_vars

----------------------------------------------------------------------------
(* Derived views of the state *)

BufferedLines == UNION { { message_buffer[k].content[n] :
                              n \in DOMAIN message_buffer[k].content } :
                         k \in DOMAIN message_buffer }

BufferedEvents == { l.ev : l \in BufferedLines }

Sending == { t \in Tasks : pc[t] = "send" }

Idle == \A t \in Tasks : pc[t] = "idle"

RECURSIVE History(_, _)
History(log, c) ==
    IF log = <<>> THEN <<>>
    ELSE (IF Head(log).channel = c THEN Head(log).lines ELSE <<>>)
         \o History(Tail(log), c)

Pos(h, l) == CHOOSE n \in DOMAIN h : h[n] = l

Of(content, ev) == SelectSeq(content, LAMBDA l : l.ev = ev)

Whole(ev) ==
    \A k \in DOMAIN message_buffer :
        Of(message_buffer[k].content, ev) =
            IF message_buffer[k].channel = logged[ev].channel
            THEN logged[ev].lines ELSE <<>>

Aborts == stats'.dump_raised = stats.dump_raised + 1

Completes == stats'.dump_done = stats.dump_done + 1

----------------------------------------------------------------------------
(* C1: with no explicit dump() ever requested, nothing is being sent while *)
(* fewer than BUFFER_SIZE events have been recorded since the last flush.  *)

C1_NoSendBelowThreshold ==
    (stats.explicit = 0 /\ Sending # {}) =>
        /\ current_size >= BUFFER_SIZE
        /\ Cardinality(BufferedEvents) >= BUFFER_SIZE

(* C2: a dump() that runs to its end leaves, at the step in which it       *)
(* releases the lock, no entry in message_buffer and current_size = 0.     *)

C2_FlushLeavesEmpty ==
    [][Completes => (message_buffer' = <<>> /\ current_size' = 0)]_vars

C2_Witness ==
    /\ stats.dump_done = 1
    /\ stats.dump_raised = 0
    /\ Len(sent["A"]) > 1
    /\ sent["B"] # <<>>
    /\ Idle

(* C3: the lines delivered to a destination, over all flushes, are in the  *)
(* order in which the record calls appended them.                          *)

C3_DispatchOrder ==
    \A c \in DOMAIN sent :
        \A i, j \in DOMAIN sent[c] :
            i < j => Pos(History(logged, c), sent[c][i])
                         < Pos(History(logged, c), sent[c][j])

(* C4: current_size is the number of events (not lines) appended since the *)
(* buffer was last cleared, is never negative, and goes back to 0 only in  *)
(* the clear step of a flush.                                              *)

C4_PendingCount ==
    /\ [](current_size = Cardinality(BufferedEvents) /\ current_size >= 0)
    /\ [][(current_size # 0 /\ current_size' = 0) =>
              (Completes /\ Sending \cup {t \in Tasks : pc[t] = "dump"} # {})]_vars

C4_Witness ==
    /\ Idle
    /\ stats.dump_done = 1
    /\ current_size = 1
    /\ Cardinality(BufferedLines) > 1

(* C5: the lock is held by at most one task; while a flush is dispatching  *)
(* the buffer changes only by that flush's own clear; what the flush sees  *)
(* holds every buffered event whole, with its increment done.              *)

C5_MutualExclusion ==
    /\ [](/\ Cardinality(Sending) <= 1
          /\ lock._locked <=> Sending # {}
          /\ Sending # {} =>
                /\ current_size = Cardinality(BufferedEvents)
                /\ \A ev \in BufferedEvents : Whole(ev))
    /\ [][\A t \in Tasks : pc[t] = "send" =>
              \/ /\ message_buffer' = message_buffer
                 /\ current_size' = current_size
              \/ /\ pc'[t] = "idle"
                 /\ Completes
                 /\ message_buffer' = <<>>
                 /\ ~lock'._locked]_vars

C5_Witness ==
    \E t, u \in Tasks :
        /\ pc[t] = "send"
        /\ pc[u] = "record"
        /\ lock._waiters = <<u>>
        /\ Cardinality(BufferedLines) > current_size

(* C6: BUFFER_SIZE callers, one event each, to distinct destinations: once *)
(* all calls are over there was one dump(), and every destination got      *)
(* exactly its lines, once.                                                *)

C6_OneFlushAllDelivered ==
    (budget.calls = 0 /\ Idle) =>
        /\ stats.dump_calls = 1
        /\ \A k \in DOMAIN logged : sent[logged[k].channel] = logged[k].lines

(* C7: a record call whose append makes current_size >= BUFFER_SIZE does   *)
(* not return in that step, and when it returns its own dump() has just    *)
(* cleared the buffer.                                                     *)

C7_FlushBeforeReturn ==
    [][/\ (Len(logged') > Len(logged) /\ Full(current_size + 1)) =>
              \E t \in Tasks : /\ pc'[t] \in {"send", "dump"}
                               /\ frame'[t].crossed
                               /\ ~frame[t].crossed
       /\ \A t \in Tasks :
              (frame[t].crossed /\ pc'[t] = "idle" /\ ~Aborts) =>
                  /\ Completes
                  /\ message_buffer' = <<>>
                  /\ current_size' = 0]_vars

C7_Witness ==
    /\ Idle
    /\ stats.explicit = 0
    /\ stats.dump_raised = 0
    /\ stats.dump_done = 1
    /\ Len(logged) = BUFFER_SIZE
    /\ sent["A"] # <<>>
    /\ sent["B"] # <<>>
    /\ current_size = 0

(* C8: when a send fails, every other destination of that flush has had    *)
(* all its batches dispatched by the time the flush ends.                  *)

C8_OthersStillFlushed ==
    [][\A t \in Tasks : (pc[t] = "send" /\ pc'[t] = "idle" /\ Aborts) =>
           \A k \in DOMAIN message_buffer :
               k # frame[t].i => message_buffer[k].channel \in frame[t].delivered]_vars

(* C9: a flush in which a send failed still ends with no entry in          *)
(* message_buffer and current_size = 0.                                    *)

C9_ClearRegardless ==
    [][Aborts => (message_buffer' = <<>> /\ current_size' = 0)]_vars

(* C10: no line is delivered twice.                                        *)

C10_NoLineSentTwice ==
    \A c \in DOMAIN sent :
        \A i, j \in DOMAIN sent[c] : i # j => sent[c][i] # sent[c][j]

(* C11: a flush that has ended has delivered every line that was buffered  *)
(* when it took the lock, each to the destination it was recorded under    *)
(* and to no other, and has left the buffer empty.                         *)

EndsWith(seq, end) ==
    /\ Len(seq) >= Len(end)
    /\ SubSeq(seq, Len(seq) - Len(end) + 1, Len(seq)) = end

C11_FlushDispatchesAll ==
    /\ [](\A c \in DOMAIN sent : \A n \in DOMAIN sent[c] :
              logged[sent[c][n].ev].channel = c)
    /\ [][\A t \in Tasks : (pc[t] = "send" /\ pc'[t] = "idle") =>
              /\ message_buffer' = <<>>
              /\ \A k \in DOMAIN message_buffer :
                     EndsWith(sent'[message_buffer[k].channel],
                              message_buffer[k].content)]_vars

(* C12: a send that fails ends, in that step, the flush and the call that  *)
(* invoked it (dump(), or the record call that started the flush) with the *)
(* exception; no failure goes by without a call raising.                   *)

C12_FailurePropagates ==
    /\ [](stats.send_failed = stats.dump_raised)
    /\ [][stats'.send_failed > stats.send_failed =>
              /\ Aborts
              /\ ~Completes
              /\ \E t \in Tasks :
                     /\ pc[t] = "send"
                     /\ pc'[t] = "idle"
                     /\ frame[t].op \in {"dump", "log_message", "log_system_msg"}]_vars

C12_Witness ==
    /\ stats.send_failed = 1
    /\ stats.dump_raised = 1
    /\ stats.explicit = 0
    /\ Idle

(* C13: a record call whose formatting raises leaves message_buffer and    *)
(* current_size as they were and the lock released.                        *)

FormatFails == stats'.format_raised = stats.format_raised + 1

C13_FormatFailureLeavesBuffer ==
    [][FormatFails =>
           /\ message_buffer' = message_buffer
           /\ current_size' = current_size
           /\ ~lock'._locked]_vars

(* C14: a buffer that has been constructed and takes calls has a positive *)
(* threshold; a non-positive one is rejected at construction.             *)

C14_ThresholdPositive ==
    (Len(logged) > 0 \/ ~Idle) => settings.voiceroom_buffer_size > 0

(* C15: format_message returns one header line, then one attachments line *)
(* iff the message has attachments, then one tail line per wrapped chunk  *)
(* iff it has content; header only for a message with neither, header and *)
(* attachments line for an attachment-only message.                       *)

Parts(lines) == [i \in DOMAIN lines |-> lines[i].part]

Wrapped(message) ==
    string_wrap(quotify(escape_formatting(message.clean_content)), LOG_WRAP)

C15_FormatStructure ==
    \A k \in DOMAIN logged :
        logged[k].event.type = "chat" =>
            LET m == logged[k].event
                ls == logged[k].lines
                nAtt == IF m.attachments # <<>> THEN 1 ELSE 0
                nTail == IF m.content.len # 0 THEN Len(Wrapped(m)) ELSE 0
            IN /\ Len(ls) = 1 + nAtt + nTail
               /\ ls[1].part = "header"
               /\ nAtt = 1 => ls[2].part = "attachments"
               /\ \A i \in (2 + nAtt)..Len(ls) :
                      /\ ls[i].part = "tail"
                      /\ ls[i].no = i - 1 - nAtt
                      /\ ls[i].len = Wrapped(m)[i - 1 - nAtt].len
               /\ m.content.len # 0 => nTail >= 1
               /\ (m.attachments = <<>> /\ m.content.len = 0) =>
                      Parts(ls) = <<"header">>
               /\ (m.attachments # <<>> /\ m.content.len = 0) =>
                      Parts(ls) = <<"header", "attachments">>

C15_Witness ==
    /\ \E k \in DOMAIN logged :
           /\ logged[k].event.attachments = <<>>
           /\ logged[k].event.content.len = 0
           /\ Len(logged[k].lines) = 1
    /\ \E k \in DOMAIN logged :
           /\ Len(logged[k].event.attachments) = 2
           /\ logged[k].event.content.len = 0
           /\ Len(logged[k].lines) = 2
    /\ \E k \in DOMAIN logged :
           /\ logged[k].event.attachments # <<>>
           /\ logged[k].event.content.len = LOG_WRAP - 1
           /\ Parts(logged[k].lines) = <<"header", "attachments", "tail", "tail">>

(* C16: log_system_msg(L, T, text) appends exactly one line, carrying T   *)
(* and the unescaped text, to the end of L's entry, adds exactly 1 to     *)
(* current_size and leaves every other entry, T's included, unchanged; no *)
(* line is ever in two entries.                                           *)

Entry(buf, c) ==
    IF Position(buf, c) = 0 THEN <<>> ELSE buf[Position(buf, c)].content

SystemAppend(L, T, x) ==
    LET ev == Len(logged') IN
    /\ Len(logged') = Len(logged) + 1
    /\ logged'[ev].event.type = "system"
    /\ logged'[ev].event.text_channel = T
    /\ logged'[ev].event.text = x
    /\ Entry(message_buffer', L) =
           Entry(message_buffer, L) \o <<Line(ev, "raw", 1, 30 + x.len)>>
    /\ current_size' = current_size + 1
    /\ \A c \in Channels \ {L} :
           /\ Entry(message_buffer', c) = Entry(message_buffer, c)
           /\ Position(message_buffer', c) = 0 <=> Position(message_buffer, c) = 0

SystemQueued(t, L, T, x) ==
    /\ pc'[t] = "record"
    /\ frame'[t].op = "log_system_msg"
    /\ frame'[t].channel = L
    /\ frame'[t].event = SystemEvent(T, x)
    /\ message_buffer' = message_buffer
    /\ current_size' = current_size

C16_SystemMsgFrame ==
    /\ [](\A i, j \in DOMAIN message_buffer :
              i # j =>
                  /\ message_buffer[i].channel # message_buffer[j].channel
                  /\ \A a \in DOMAIN message_buffer[i].content,
                        b \in DOMAIN message_buffer[j].content :
                         message_buffer[i].content[a] # message_buffer[j].content[b])
    /\ [][\A t \in Tasks, L \in Channels, T \in Channels, x \in Texts :
              log_system_msg(t, L, T, x) =>
                  SystemAppend(L, T, x) \/ SystemQueued(t, L, T, x)]_vars
    /\ [][\A t \in Tasks :
              (acquire_record(t) /\ frame[t].op = "log_system_msg") =>
                  SystemAppend(frame[t].channel, frame[t].event.text_channel,
                               frame[t].event.text)]_vars

C16_Witness ==
    /\ Len(logged) >= 2
    /\ logged[1].event.type = "chat"
    /\ logged[1].channel = "B"
    /\ logged[2].event.type = "system"
    /\ logged[2].channel = "A"
    /\ logged[2].event.text_channel = "B"
    /\ Position(message_buffer, "A") # 0
    /\ Position(message_buffer, "B") # 0
    /\ Entry(message_buffer, "B") = logged[1].lines
    /\ Len(Entry(message_buffer, "A")) = 1

(* C17: while no send has failed, a quiescent buffer (no call in progress *)
(* or waiting) holds fewer events than the threshold, and a buffer that   *)
(* holds the threshold or more has a flush waiting for the lock or        *)
(* dispatching.                                                           *)

FlushPending == \E t \in Tasks : pc[t] \in {"dump", "send"}

C17_QuiescentBelowThreshold ==
    stats.send_failed = 0 =>
        /\ Idle => current_size < settings.voiceroom_buffer_size
        /\ current_size >= settings.voiceroom_buffer_size => FlushPending

C17_Witness ==
    /\ stats.send_failed = 0
    /\ Idle
    /\ Len(logged) = BUFFER_SIZE + 1
    /\ stats.dump_done = 1
    /\ current_size = 1

(* C18: current_size never exceeds the threshold, under any interleaving  *)
(* of record and flush calls.                                             *)

C18_CountWithinThreshold == current_size <= settings.voiceroom_buffer_size

(* C19: the buffer never deadlocks: with waiters resumed and sends coming *)
(* back, every log_message, log_system_msg and dump call eventually       *)
(* returns.                                                               *)

C19_EveryCallReturns ==
    \A t \in TaskIds : (pc[t] # "idle") ~> (pc[t] = "idle")

C19_Witness ==
    \E t \in Tasks, u \in Tasks :
        /\ pc[t] = "send"
        /\ frame[t].crossed
        /\ pc[u] \in {"record", "dump"}
        /\ lock._locked
        /\ lock._waiters = <<u>>

(* C20: the lock is released on every exit from a critical section, the   *)
(* exit by a raising send included: it is held exactly while a flush is   *)
(* dispatching, the step that aborts a flush leaves it free, and once     *)
(* every call has ended nobody holds or awaits it.                        *)

C20_LockReleased ==
    /\ [](lock._locked <=> Sending # {})
    /\ [](Cardinality(Sending) <= 1)
    /\ [](Idle => lock = [_locked |-> FALSE, _waiters |-> <<>>])
    /\ [][Aborts => ~lock'._locked]_vars

C20_Witness ==
    /\ stats.dump_raised = 1
    /\ stats.dump_done = 1
    /\ Len(logged) = BUFFER_SIZE + 1
    /\ current_size = 0
    /\ ~lock._locked
    /\ Idle

====
